---- MODULE Spec2Model ----
(***************************************************************************)
(* Model of the domain core of advanced-tdd-with-nodejs:                   *)
(*   - the Email value object (src/src/domain/value-objects/email.ts) with *)
(*     its synchronous construction and its asynchronous anti-spam         *)
(*     construction path createWithoutSpam;                                *)
(*   - the User entity (src/src/domain/entities/user.ts) with create,      *)
(*     reconstitute, updateEmail and updateName;                           *)
(*   - the in-memory repository of banned addresses (user.ts) and the      *)
(*     validator of allowed domains (emailValidatorService.ts).            *)
(* Strings are sequences of one-character strings.  Date objects live in a *)
(* heap (dates) and Users hold references into it, as in JavaScript.       *)
(***************************************************************************)
EXTENDS Integers, Sequences, FiniteSets, TLC

VARIABLES call, users, hist, dates, now, calls, repo

vars == <<call, users, hist, dates, now, calls, repo>>

-----------------------------------------------------------------------------
(* Bounds of the model *)

\* longest candidate string handed to Email construction
MaxLen == 7

\* number of User instances built in one behaviour
MaxUsers == 3

\* latest reading of the clock (milliseconds)
MaxTime == 1

\* number of construction calls issued concurrently in one behaviour
MaxCalls == 2

\* longest of the short candidate strings handed to UserName
MaxShortName == 4

\* number of ban, unban and clear calls in one behaviour
MaxOps == 3

-----------------------------------------------------------------------------
(* Strings *)

\* the characters candidates are made of: a lowercase letter, an uppercase
\* letter, the at sign, the dot and a whitespace character
Chars == {"a", "A", "@", ".", " "}

Strings(n) == UNION {[1..k -> Chars] : k \in 0..n}

Candidates == Strings(MaxLen)

IsWhitespace(c) == c = " "

\* String.prototype.trim
RECURSIVE TrimStart(_)
TrimStart(s) ==
    IF s = <<>> THEN <<>>
    ELSE IF IsWhitespace(Head(s)) THEN TrimStart(Tail(s))
    ELSE s

RECURSIVE TrimEnd(_)
TrimEnd(s) ==
    IF s = <<>> THEN <<>>
    ELSE IF IsWhitespace(s[Len(s)]) THEN TrimEnd(SubSeq(s, 1, Len(s) - 1))
    ELSE s

Trim(s) == TrimEnd(TrimStart(s))

\* String.prototype.toLowerCase.  A character outside ASCII is written as
\* its code point.  The lowercase of U+0130 (capital I with dot above) is two
\* code units, "i" followed by U+0307 (combining dot above): lowercasing can
\* lengthen a string.
LowerChar(c) == IF c = "A" THEN "a" ELSE c

LowerCaseOf(c) == IF c = "U+0130" THEN <<"i", "U+0307">> ELSE <<LowerChar(c)>>

\* the lowercase of s[lo..hi], put together from the lowercase of its halves
RECURSIVE LowerCaseRange(_, _, _)
LowerCaseRange(s, lo, hi) ==
    IF lo > hi THEN <<>>
    ELSE IF lo = hi THEN LowerCaseOf(s[lo])
    ELSE LET mid == (lo + hi) \div 2
         IN  LowerCaseRange(s, lo, mid) \o LowerCaseRange(s, mid + 1, hi)

ToLowerCase(s) ==
    IF \A i \in 1..Len(s) : s[i] # "U+0130"
    THEN [i \in 1..Len(s) |-> LowerChar(s[i])]
    ELSE LowerCaseRange(s, 1, Len(s))

-----------------------------------------------------------------------------
(* Email value object *)

MaxEmailLength == 254

\* [^\s@]
NotSpaceNorAt(c) == ~IsWhitespace(c) /\ c # "@"

\* /^[^\s@]+@[^\s@]+\.[^\s@]+$/.test(email): an '@' at i and a '.' at j with
\* non-empty runs of [^\s@] before i, between i and j, and after j
EMAIL_REGEX(email) ==
    \E i \in 1..Len(email) : \E j \in 1..Len(email) :
        /\ email[i] = "@"
        /\ email[j] = "."
        /\ 1 < i
        /\ i + 1 < j
        /\ j < Len(email)
        /\ \A k \in 1..Len(email) : k # i => NotSpaceNorAt(email[k])

\* email.includes('..')
hasConsecutiveDots(email) ==
    \E i \in 1..(Len(email) - 1) : email[i] = "." /\ email[i + 1] = "."

\* faulty variant: the length limit is exclusive
isValidBelowLimit(email) ==
    /\ Len(email) > 0
    /\ Len(email) < MaxEmailLength
    /\ ~hasConsecutiveDots(email)
    /\ EMAIL_REGEX(email)

\* Email.isValid
isValid(email) ==
    /\ Len(email) > 0
    /\ Len(email) <= MaxEmailLength
    /\ ~hasConsecutiveDots(email)
    /\ EMAIL_REGEX(email)

\* outcomes of a construction: a returned Email, or a thrown error
Returned(value) == [status |-> "returned", email |-> [value |-> value]]

Thrown(kind, input) == [status |-> "thrown", error |-> [kind |-> kind, input |-> input]]

\* faulty variant: the trimmed string is stored without lowercasing
EmailConstructorKeepsCase(email) ==
    LET normalized == Trim(email)
    IN  IF ~isValid(normalized)
        THEN Thrown("Invalid email format", normalized)
        ELSE Returned(normalized)

\* new Email(email)
EmailConstructor(email) ==
    LET normalized == Trim(email)
    IN  IF ~isValid(normalized)
        THEN Thrown("Invalid email format", normalized)
        ELSE Returned(ToLowerCase(normalized))

\* Email.create
EmailCreate(email) == EmailConstructor(email)

\* the positions of '@' in a string
AtSigns(s) == {i \in 1..Len(s) : s[i] = "@"}

\* s.split('@')[1]: what lies between the first '@' and the next one, or the
\* end of the string; <<"undefined">> stands for undefined (no '@' in s)
SplitAtSecond(s) ==
    IF AtSigns(s) = {} THEN <<"undefined">>
    ELSE LET first == CHOOSE i \in AtSigns(s) : \A k \in AtSigns(s) : i <= k
             later == {k \in AtSigns(s) : k > first}
             stop == IF later = {} THEN Len(s) + 1
                     ELSE CHOOSE k \in later : \A m \in later : k <= m
         IN  SubSeq(s, first + 1, stop - 1)

\* s.split('@')[0]: what lies before the first '@', or all of s
SplitAtFirst(s) ==
    IF AtSigns(s) = {} THEN s
    ELSE LET first == CHOOSE i \in AtSigns(s) : \A k \in AtSigns(s) : i <= k
         IN  SubSeq(s, 1, first - 1)

\* faulty variant: the domain is taken from the '@' on, the '@' included
EmailGetDomainWithAt(email) == <<"@">> \o SplitAtSecond(email.value)

\* email.getDomain()
EmailGetDomain(email) == SplitAtSecond(email.value)

\* email.getLocalPart()
EmailGetLocalPart(email) == SplitAtFirst(email.value)

\* emailValidatorService: new Set(['corp.com', 'university.edu'])
allowedDomains ==
    {<<"c", "o", "r", "p", ".", "c", "o", "m">>,
     <<"u", "n", "i", "v", "e", "r", "s", "i", "t", "y", ".", "e", "d", "u">>}

\* faulty variant: a domain that ends with an allowed domain is accepted
emailValidatorServiceIsValidBySuffix(email) ==
    LET domain == EmailGetDomain(email)
    IN  \E allowed \in allowedDomains :
            /\ Len(allowed) <= Len(domain)
            /\ SubSeq(domain, Len(domain) - Len(allowed) + 1, Len(domain)) = allowed

\* emailValidatorService.isValid(email)
emailValidatorServiceIsValid(email) == EmailGetDomain(email) \in allowedDomains

-----------------------------------------------------------------------------
(* Anti-spam capability (AntiSpamPort) and Email.createWithoutSpam *)

\* the ways the promise returned by antiSpamService.isBlocked(email) settles:
\* it resolves true, resolves false, or rejects with a transport error
TransportErrors == {"ETIMEDOUT", "ECONNRESET"}

Resolved(b) == [state |-> "fulfilled", value |-> b]

Rejected(reason) == [state |-> "rejected", reason |-> [kind |-> reason]]

Settlements == {Resolved(TRUE), Resolved(FALSE)} \cup {Rejected(r) : r \in TransportErrors}

\* what a call of createWithoutSpam settles with: the promise is fulfilled
\* with an Email, or rejected with an error
Fulfilled(email) == [status |-> "returned", email |-> email]

Fails(error) == [status |-> "thrown", error |-> error]

\* faulty variant: the blocked answer is not looked at
createWithoutSpamIgnoresAnswer(email, settled) ==
    IF settled.state = "rejected" THEN Fails(settled.reason)
    ELSE EmailConstructor(email)

\* faulty variant: a failing capability is caught and treated as "not blocked"
createWithoutSpamFailsOpen(email, settled) ==
    IF settled.state = "fulfilled" /\ settled.value
    THEN Thrown("Email is blocked or blacklisted", email)
    ELSE EmailConstructor(email)

\* faulty variant: the Email is built from the candidate as given
createWithoutSpamStoresRaw(email, settled) ==
    IF settled.state = "rejected" THEN Fails(settled.reason)
    ELSE IF settled.value THEN Thrown("Email is blocked or blacklisted", email)
    ELSE IF EmailConstructor(email).status = "returned" THEN Fulfilled([value |-> email])
    ELSE EmailConstructor(email)

\* faulty variant: the first answer the capability gave to any call is kept
\* and reused for the calls that settle later
createWithoutSpamCachesAnswer(email, settled) ==
    LET answered == {j \in DOMAIN calls : /\ calls[j].pc = "done"
                                          /\ calls[j].kind = "createWithoutSpam"}
        cached == IF answered = {} THEN settled
                  ELSE calls[CHOOSE j \in answered : \A k \in answered : j <= k].settled
    IN  IF cached.state = "rejected" THEN Fails(cached.reason)
        ELSE IF cached.value THEN Thrown("Email is blocked or blacklisted", email)
        ELSE EmailConstructor(email)

\* Email.createWithoutSpam from the point where the awaited promise has
\* settled: a rejection is rethrown by await, true throws the blocked error,
\* false goes on to new Email(email)
createWithoutSpamResume(email, settled) ==
    IF settled.state = "rejected" THEN Fails(settled.reason)
    ELSE IF settled.value THEN Thrown("Email is blocked or blacklisted", email)
    ELSE EmailConstructor(email)

NoCall ==
    [kind |-> "none", candidate |-> <<>>, pc |-> "idle", invoked |-> 0,
     arg |-> <<>>, settled |-> [state |-> "pending"], outcome |-> [status |-> "pending"]]

\* Email.create(candidate), called by the application: synchronous, one step
CallCreate ==
    /\ call.pc = "idle"
    /\ \E candidate \in Candidates :
         call' = [NoCall EXCEPT !.kind = "create", !.candidate = candidate,
                                !.pc = "done", !.outcome = EmailCreate(candidate)]
    /\ UNCHANGED <<users, hist, dates, now, calls, repo>>

\* Email.createWithoutSpam(candidate, antiSpamService) up to its await: the
\* capability is invoked with the candidate and the call suspends
CallCreateWithoutSpam ==
    /\ call.pc = "idle"
    /\ \E candidate \in Candidates :
         call' = [NoCall EXCEPT !.kind = "createWithoutSpam", !.candidate = candidate,
                                !.pc = "awaiting", !.invoked = 1, !.arg = candidate]
    /\ UNCHANGED <<users, hist, dates, now, calls, repo>>

\* the capability settles and createWithoutSpam runs to its end
IsBlockedSettles ==
    /\ call.pc = "awaiting"
    /\ \E settled \in Settlements :
         call' = [call EXCEPT !.pc = "done", !.settled = settled,
                              !.outcome = createWithoutSpamResume(call.candidate, settled)]
    /\ UNCHANGED <<users, hist, dates, now, calls, repo>>

\* the caller has taken the outcome; the next call can be issued
CallConsumed ==
    /\ call.pc = "done"
    /\ call' = NoCall
    /\ UNCHANGED <<users, hist, dates, now, calls, repo>>

\* new InMemoryBannedEmailRepository(): no address is banned; log is the
\* record of the calls made on the repository since
EmptyRepository == [bannedEmails |-> <<>>, log |-> <<>>]

InitEmail ==
    /\ call = NoCall
    /\ users = <<>>
    /\ hist = <<>>
    /\ dates = <<>>
    /\ now = 0
    /\ calls = <<>>
    /\ repo = EmptyRepository

NextEmail ==
    \/ CallCreate
    \/ CallCreateWithoutSpam
    \/ IsBlockedSettles
    \/ CallConsumed

SpecEmail == InitEmail /\ [][NextEmail]_vars

-----------------------------------------------------------------------------
(* Concurrently issued construction calls: a caller issues several calls    *)
(* without awaiting them one by one, and the capability answers them in any *)
(* order.                                                                   *)

\* the candidates of a batch of signups: a valid address, the same address
\* in another letter case and padded, and a string that is no address
BatchCandidates ==
    {<<"a", "@", "a", ".", "a">>, <<" ", "A", "@", "a", ".", "a">>, <<"a">>}

\* Email.createWithoutSpam(candidate, antiSpamService) is called: it runs up
\* to its await, where the capability has been invoked with the candidate
IssueCreateWithoutSpam ==
    /\ Len(calls) < MaxCalls
    /\ \E candidate \in BatchCandidates :
         calls' = Append(calls,
             [NoCall EXCEPT !.kind = "createWithoutSpam", !.candidate = candidate,
                            !.pc = "awaiting", !.invoked = 1, !.arg = candidate])
    /\ UNCHANGED <<call, users, hist, dates, now, repo>>

\* Email.create(candidate) is called while other calls are suspended: it
\* runs to its end in the same step
IssueCreate ==
    /\ Len(calls) < MaxCalls
    /\ \E candidate \in BatchCandidates :
         calls' = Append(calls,
             [NoCall EXCEPT !.kind = "create", !.candidate = candidate,
                            !.pc = "done", !.outcome = EmailCreate(candidate)])
    /\ UNCHANGED <<call, users, hist, dates, now, repo>>

\* the capability settles the promise of one of the suspended calls, which
\* resumes and runs to its end
SettleIsBlocked ==
    /\ \E i \in DOMAIN calls : \E settled \in Settlements :
         /\ calls[i].pc = "awaiting"
         /\ calls' = [calls EXCEPT ![i] =
               [@ EXCEPT !.pc = "done", !.settled = settled,
                         !.outcome = createWithoutSpamResume(calls[i].candidate, settled)]]
    /\ UNCHANGED <<call, users, hist, dates, now, repo>>

NextConcurrent ==
    \/ IssueCreateWithoutSpam
    \/ IssueCreate
    \/ SettleIsBlocked

SpecConcurrent == InitEmail /\ [][NextConcurrent]_vars

-----------------------------------------------------------------------------
(* UserId and UserName value objects, as far as the User entity uses them *)

HexDigits ==
    {"0", "1", "2", "3", "4", "5", "6", "7", "8", "9",
     "a", "b", "c", "d", "e", "f", "A", "B", "C", "D", "E", "F"}

\* the lengths of the hyphen-separated groups of a UUID
UuidGroups == <<8, 4, 4, 4, 12>>

Repeat(c, n) == [i \in 1..n |-> c]

RECURSIVE JoinGroups(_, _)
JoinGroups(c, groups) ==
    IF Len(groups) = 1 THEN Repeat(c, Head(groups))
    ELSE Repeat(c, Head(groups)) \o <<"-">> \o JoinGroups(c, Tail(groups))

\* the UUID whose 32 digits are all c
Uuid(c) == JoinGroups(c, UuidGroups)

RECURSIVE MatchesGroups(_, _)
MatchesGroups(s, groups) ==
    LET n == Head(groups)
    IN  /\ Len(s) >= n
        /\ \A i \in 1..n : s[i] \in HexDigits
        /\ IF Len(groups) = 1 THEN Len(s) = n
           ELSE /\ Len(s) > n
                /\ s[n + 1] = "-"
                /\ MatchesGroups(SubSeq(s, n + 2, Len(s)), Tail(groups))

\* UserId.isValid
UserIdIsValid(s) == MatchesGroups(s, UuidGroups)

\* identifiers the application already holds and passes to User.create or
\* User.reconstitute
SuppliedIds == {[value |-> Uuid("B")]}

\* identifiers UserId.generate() can return
GeneratedIds == {[value |-> Uuid(c)] : c \in {"0", "a"}}

\* the absent optional argument id?: UserId
NoId == [value |-> <<>>]

\* the Email objects the application passes to User
Addresses == {<<"a", "@", "a", ".", "a">>, <<" ", "A", "a", "@", "a", ".", "a">>}

Emails == {EmailCreate(s).email : s \in Addresses}

\* the UserName objects the application passes to User
Names == {[value |-> <<"A", "l">>], [value |-> <<"B", "o">>]}

\* the (email, name) pairs the application registers or restores Users with
Profiles ==
    {<<EmailCreate(<<"a", "@", "a", ".", "a">>).email, [value |-> <<"A", "l">>]>>,
     <<EmailCreate(<<" ", "A", "a", "@", "a", ".", "a">>).email, [value |-> <<"B", "o">>]>>}

-----------------------------------------------------------------------------
(* User entity.  A User is a record of its five readonly fields; createdAt  *)
(* and updatedAt are references to Date objects in the heap dates.          *)

\* the clock: a reading is never earlier than the reading before it
ClockReadings == now..MaxTime

\* the time values of persisted timestamps: the earliest and the latest instant
PersistedTimes == {0, MaxTime}

\* the identifiers generated so far
Generated == {users[i].id : i \in {j \in DOMAIN users : hist[j].generated}}

\* UserId.generate(): an identifier not generated before
FreshIds == GeneratedIds \ Generated

\* faulty variant: the optional id is ignored
UserCreateIgnoresId(email, name, id, fresh, nowRef) ==
    [id |-> fresh, email |-> email, name |-> name,
     createdAt |-> nowRef, updatedAt |-> nowRef]

\* faulty variant: the factory rejects an Email whose domain is not allowed
UserCreateChecksDomain(email, name, id, fresh, nowRef) ==
    IF ~emailValidatorServiceIsValid(email) THEN Thrown("Invalid email domain", email.value)
    ELSE [id |-> IF id # NoId THEN id ELSE fresh, email |-> email, name |-> name,
          createdAt |-> nowRef, updatedAt |-> nowRef]

\* faulty variant: a missing id falls back on one fixed identifier
UserCreateConstantId(email, name, id, fresh, nowRef) ==
    [id |-> IF id # NoId THEN id ELSE [value |-> Uuid("0")], email |-> email,
     name |-> name, createdAt |-> nowRef, updatedAt |-> nowRef]

\* User.create: new User(id || UserId.generate(), email, name, now, now)
UserCreateResult(email, name, id, fresh, nowRef) ==
    [id |-> IF id # NoId THEN id ELSE fresh, email |-> email, name |-> name,
     createdAt |-> nowRef, updatedAt |-> nowRef]

\* faulty variant: createdAt is passed on for both timestamps
UserReconstituteOneDate(id, email, name, createdAt, updatedAt) ==
    [id |-> id, email |-> email, name |-> name,
     createdAt |-> createdAt, updatedAt |-> createdAt]

\* User.reconstitute
UserReconstituteResult(id, email, name, createdAt, updatedAt) ==
    [id |-> id, email |-> email, name |-> name,
     createdAt |-> createdAt, updatedAt |-> updatedAt]

\* faulty variant: the two Date arguments are passed in the wrong order
UserUpdateEmailSwapsDates(this, newEmail, nowRef) ==
    [id |-> this.id, email |-> newEmail, name |-> this.name,
     createdAt |-> nowRef, updatedAt |-> this.createdAt]

\* faulty variant: the name is reset along with the email
UserUpdateEmailDropsName(this, newEmail, nowRef) ==
    [id |-> this.id, email |-> newEmail, name |-> [value |-> <<>>],
     createdAt |-> this.createdAt, updatedAt |-> nowRef]

\* faulty variant: updatedAt is carried over from the receiver
UserUpdateEmailKeepsUpdatedAt(this, newEmail, nowRef) ==
    [id |-> this.id, email |-> newEmail, name |-> this.name,
     createdAt |-> this.createdAt, updatedAt |-> this.updatedAt]

\* User.updateEmail
UserUpdateEmailResult(this, newEmail, nowRef) ==
    [id |-> this.id, email |-> newEmail, name |-> this.name,
     createdAt |-> this.createdAt, updatedAt |-> nowRef]

\* faulty variant: updatedAt is taken from createdAt instead of the clock
UserUpdateNameKeepsCreatedAt(this, newName, nowRef) ==
    [id |-> this.id, email |-> this.email, name |-> newName,
     createdAt |-> this.createdAt, updatedAt |-> this.createdAt]

\* faulty variant: updatedAt is carried over from the receiver
UserUpdateNameKeepsUpdatedAt(this, newName, nowRef) ==
    [id |-> this.id, email |-> this.email, name |-> newName,
     createdAt |-> this.createdAt, updatedAt |-> this.updatedAt]

\* User.updateName
UserUpdateNameResult(this, newName, nowRef) ==
    [id |-> this.id, email |-> this.email, name |-> newName,
     createdAt |-> this.createdAt, updatedAt |-> nowRef]

\* the record kept of the call that built users[i]: the operation, the
\* receiver (0 for the static factories), the arguments, the clock readings
\* taken (new Date() evaluations) and the last of them
Built(op, receiver, given, generated, reads, clock) ==
    [op |-> op, receiver |-> receiver, given |-> given,
     generated |-> generated, reads |-> reads, clock |-> clock]

\* User.create(email, name, id?)
UserCreate ==
    /\ Len(users) < MaxUsers
    /\ \E profile \in Profiles, id \in SuppliedIds \cup {NoId} :
       \E t \in ClockReadings :
       \E fresh \in IF id = NoId THEN FreshIds ELSE {NoId} :
         LET email == profile[1]
             name == profile[2]
             nowRef == Len(dates) + 1
         IN  /\ now' = t
             /\ dates' = Append(dates, t)
             /\ users' = Append(users, UserCreateResult(email, name, id, fresh, nowRef))
             /\ hist' = Append(hist, Built("create", 0,
                                           [email |-> email, name |-> name, id |-> id],
                                           id = NoId, 1, t))
    /\ UNCHANGED <<call, calls, repo>>

\* User.reconstitute(id, email, name, createdAt, updatedAt), with the two
\* Date objects the caller makes for it from persisted time values
UserReconstitute ==
    /\ Len(users) < MaxUsers
    /\ \E id \in SuppliedIds, profile \in Profiles :
       \E tc \in PersistedTimes, tu \in PersistedTimes :
         LET email == profile[1]
             name == profile[2]
             createdAt == Len(dates) + 1
             updatedAt == Len(dates) + 2
         IN  /\ dates' = dates \o <<tc, tu>>
             /\ users' = Append(users,
                    UserReconstituteResult(id, email, name, createdAt, updatedAt))
             /\ hist' = Append(hist, Built("reconstitute", 0,
                    [id |-> id, email |-> email, name |-> name,
                     createdAt |-> createdAt, updatedAt |-> updatedAt],
                    FALSE, 0, now))
    /\ UNCHANGED <<call, now, calls, repo>>

\* user.updateEmail(newEmail)
UserUpdateEmail ==
    /\ Len(users) < MaxUsers
    /\ \E this \in DOMAIN users, newEmail \in Emails :
       \E t \in ClockReadings :
         LET nowRef == Len(dates) + 1
         IN  /\ now' = t
             /\ dates' = Append(dates, t)
             /\ users' = Append(users, UserUpdateEmailResult(users[this], newEmail, nowRef))
             /\ hist' = Append(hist, Built("updateEmail", this,
                                           [email |-> newEmail], FALSE, 1, t))
    /\ UNCHANGED <<call, calls, repo>>

\* user.updateName(newName)
UserUpdateName ==
    /\ Len(users) < MaxUsers
    /\ \E this \in DOMAIN users, newName \in Names :
       \E t \in ClockReadings :
         LET nowRef == Len(dates) + 1
         IN  /\ now' = t
             /\ dates' = Append(dates, t)
             /\ users' = Append(users, UserUpdateNameResult(users[this], newName, nowRef))
             /\ hist' = Append(hist, Built("updateName", this,
                                           [name |-> newName], FALSE, 1, t))
    /\ UNCHANGED <<call, calls, repo>>

InitUser ==
    /\ call = NoCall
    /\ users = <<>>
    /\ hist = <<>>
    /\ dates = <<>>
    /\ now = 0
    /\ calls = <<>>
    /\ repo = EmptyRepository

NextUser ==
    \/ UserCreate
    \/ UserReconstitute
    \/ UserUpdateEmail
    \/ UserUpdateName

SpecUser == InitUser /\ [][NextUser]_vars

-----------------------------------------------------------------------------
(* Date objects are mutable: whoever holds a reference to one can change    *)
(* its time in place.                                                       *)

\* User.reconstitute(id, email, name, createdAt, updatedAt) with Date objects
\* the caller already holds, such as a.createdAt and a.updatedAt of a User a
UserReconstituteHeld ==
    /\ Len(users) < MaxUsers
    /\ \E id \in SuppliedIds, profile \in Profiles :
       \E createdAt \in DOMAIN dates, updatedAt \in DOMAIN dates :
         LET email == profile[1]
             name == profile[2]
         IN  /\ users' = Append(users,
                    UserReconstituteResult(id, email, name, createdAt, updatedAt))
             /\ hist' = Append(hist, Built("reconstitute", 0,
                    [id |-> id, email |-> email, name |-> name,
                     createdAt |-> createdAt, updatedAt |-> updatedAt],
                    FALSE, 0, now))
    /\ UNCHANGED <<call, dates, now, calls, repo>>

\* date.setTime(t) on a Date object reached through a User or kept by the
\* caller that made it
DateSetTime ==
    /\ \E ref \in DOMAIN dates : \E t \in 0..MaxTime :
         /\ t # dates[ref]
         /\ dates' = [dates EXCEPT ![ref] = t]
    /\ UNCHANGED <<call, users, hist, now, calls, repo>>

NextAlias ==
    \/ UserCreate
    \/ UserReconstitute
    \/ UserReconstituteHeld
    \/ UserUpdateEmail
    \/ UserUpdateName
    \/ DateSetTime

SpecAlias == InitUser /\ [][NextAlias]_vars

-----------------------------------------------------------------------------
(* Pure operations of the value objects and of User, applied one call at a  *)
(* time to values the application holds.                                    *)

\* JSON.stringify of a string value: the string between double quotes
JSONStringify(value) == <<"\"">> \o value \o <<"\"">>

\* faulty variant: the serialized values are compared by their length
ValueObjectEqualsSameLength(this, other) ==
    Len(JSONStringify(this.value)) = Len(JSONStringify(other.value))

\* ValueObject.equals
ValueObjectEquals(this, other) == JSONStringify(this.value) = JSONStringify(other.value)

\* an object as an argument of equals: an instance of User, or a plain
\* object literal with an id field
UserInstance(user) == [class |-> "User", id |-> user.id, fields |-> user]

PlainObject(id) == [class |-> "Object", id |-> id]

\* UserId.equals: equality of the wrapped strings, as for every value object
UserIdEquals(this, other) == ValueObjectEquals(this, other)

\* faulty variant: the whole state is compared, not the identifier alone
UserEqualsByState(this, other) ==
    IF other.class # "User" THEN FALSE
    ELSE UserIdEquals(this.id, other.id) /\ this.email = other.fields.email

\* user.equals(other)
UserEquals(this, other) ==
    IF other.class # "User" THEN FALSE
    ELSE UserIdEquals(this.id, other.id)

\* the Date objects of persisted Users, one for each time value
PersistedDates == [ref \in 1..(MaxTime + 1) |-> ref - 1]

\* the identifiers of the Users the application holds
SampleIds == SuppliedIds \cup GeneratedIds

\* a call that ran to its end: its name, its arguments and its outcome
Applied(kind, input, outcome) ==
    [kind |-> kind, pc |-> "done", input |-> input, outcome |-> outcome]

\* the Users the application holds
SampleUsers ==
    {UserReconstituteResult(id, email, name, createdAt, updatedAt) :
        id \in SampleIds, email \in Emails, name \in Names,
        createdAt \in DOMAIN PersistedDates, updatedAt \in DOMAIN PersistedDates}

\* user.equals(other), called by the application
CallUserEquals ==
    /\ call.pc = "idle"
    /\ \E this \in SampleUsers :
       \E other \in {UserInstance(u) : u \in SampleUsers} \cup {PlainObject(id) : id \in SampleIds} :
         call' = Applied("User.equals", [this |-> this, other |-> other],
                         UserEquals(this, other))
    /\ UNCHANGED <<users, hist, dates, now, calls, repo>>

\* the outcome of constructing a UserId or a UserName
Constructed(value) == [status |-> "returned", object |-> [value |-> value]]

\* faulty variant: the identifier is stored in lowercase
UserIdConstructorFoldsCase(value) ==
    LET lower == [c \in {"A", "B", "C", "D", "E", "F"} |->
                     CASE c = "A" -> "a" [] c = "B" -> "b" [] c = "C" -> "c"
                       [] c = "D" -> "d" [] c = "E" -> "e" [] c = "F" -> "f"]
    IN  IF ~UserIdIsValid(value) THEN Thrown("Invalid UserId format", value)
        ELSE Constructed([i \in 1..Len(value) |->
                 IF value[i] \in DOMAIN lower THEN lower[value[i]] ELSE value[i]])

\* new UserId(value): the value is wrapped unchanged when it is a UUID
UserIdConstructor(value) ==
    IF ~UserIdIsValid(value) THEN Thrown("Invalid UserId format", value)
    ELSE Constructed(value)

Letters ==
    {"a", "b", "c", "d", "e", "f", "g", "h", "i", "j", "k", "l", "m",
     "n", "o", "p", "q", "r", "s", "t", "u", "v", "w", "x", "y", "z",
     "A", "B", "C", "D", "E", "F", "G", "H", "I", "J", "K", "L", "M",
     "N", "O", "P", "Q", "R", "S", "T", "U", "V", "W", "X", "Y", "Z"}

MinNameLength == 2

MaxNameLength == 50

\* faulty variant: a name of one character is let through
UserNameIsValidNoMinimum(name) ==
    LET trimmed == Trim(name)
    IN  /\ Len(trimmed) >= 1
        /\ Len(trimmed) <= MaxNameLength
        /\ \A i \in 1..Len(trimmed) : trimmed[i] \in Letters \cup {" ", "-", "'"}

\* UserName.isValid: the length and the characters of the trimmed name
UserNameIsValid(name) ==
    LET trimmed == Trim(name)
    IN  /\ Len(trimmed) >= MinNameLength
        /\ Len(trimmed) <= MaxNameLength
        /\ \A i \in 1..Len(trimmed) : trimmed[i] \in Letters \cup {" ", "-", "'"}

\* new UserName(name): the trimmed name is validated and stored
UserNameConstructor(name) ==
    LET trimmed == Trim(name)
    IN  IF ~UserNameIsValid(trimmed) THEN Thrown("Invalid user name", trimmed)
        ELSE Constructed(trimmed)

LowerLetters ==
    <<"a", "b", "c", "d", "e", "f", "g", "h", "i", "j", "k", "l", "m",
      "n", "o", "p", "q", "r", "s", "t", "u", "v", "w", "x", "y", "z">>

UpperLetters ==
    <<"A", "B", "C", "D", "E", "F", "G", "H", "I", "J", "K", "L", "M",
      "N", "O", "P", "Q", "R", "S", "T", "U", "V", "W", "X", "Y", "Z">>

\* String.prototype.toUpperCase of one character
UpperChar(c) ==
    IF \E i \in 1..Len(LowerLetters) : LowerLetters[i] = c
    THEN UpperLetters[CHOOSE i \in 1..Len(LowerLetters) : LowerLetters[i] = c]
    ELSE c

\* the whitespace-delimited tokens of a string, in order
RECURSIVE Tokens(_)
Tokens(s) ==
    LET rest == TrimStart(s)
        spaces == {i \in 1..Len(rest) : IsWhitespace(rest[i])}
        stop == IF spaces = {} THEN Len(rest) + 1
                ELSE CHOOSE i \in spaces : \A k \in spaces : i <= k
    IN  IF rest = <<>> THEN <<>>
        ELSE <<SubSeq(rest, 1, stop - 1)>> \o Tokens(SubSeq(rest, stop, Len(rest)))

\* name.getFirstName()
UserNameGetFirstName(name) ==
    IF Tokens(name.value) = <<>> THEN <<>> ELSE Head(Tokens(name.value))

\* faulty variant: the last token is returned for a single-token name too
UserNameGetLastNameAlways(name) ==
    LET tokens == Tokens(name.value)
    IN  IF tokens = <<>> THEN <<>> ELSE tokens[Len(tokens)]

\* name.getLastName()
UserNameGetLastName(name) ==
    LET tokens == Tokens(name.value)
    IN  IF Len(tokens) > 1 THEN tokens[Len(tokens)] ELSE <<>>

\* name.getInitials()
UserNameGetInitials(name) ==
    LET tokens == Tokens(name.value)
    IN  [i \in 1..Len(tokens) |-> UpperChar(Head(tokens[i]))]

Digits == <<"0", "1", "2", "3", "4", "5", "6", "7", "8", "9">>

\* the date and time part of the ISO string of an instant in the first
\* second of the epoch, up to the milliseconds
EpochPrefix ==
    <<"1", "9", "7", "0", "-", "0", "1", "-", "0", "1", "T",
      "0", "0", ":", "0", "0", ":", "0", "0", ".">>

\* Date.prototype.toISOString for a time value below one second: the
\* milliseconds are written with three digits, followed by Z
DateToISOString(t) ==
    EpochPrefix \o <<Digits[(t \div 100) + 1], Digits[((t \div 10) % 10) + 1],
                     Digits[(t % 10) + 1]>> \o <<"Z">>

DigitValue(c) == CHOOSE n \in 0..9 : Digits[n + 1] = c

\* new Date(iso).getTime() for such a string; -1 stands for NaN (Invalid Date)
DateParse(iso) ==
    LET p == Len(EpochPrefix)
    IN  IF /\ Len(iso) = p + 4
           /\ SubSeq(iso, 1, p) = EpochPrefix
           /\ \A k \in 1..3 : \E n \in 1..10 : Digits[n] = iso[p + k]
           /\ iso[p + 4] = "Z"
        THEN 100 * DigitValue(iso[p + 1]) + 10 * DigitValue(iso[p + 2])
                 + DigitValue(iso[p + 3])
        ELSE -1

\* user.toJSON(), with the Date objects of user in heap
UserToJSON(user, heap) ==
    [id |-> user.id.value, email |-> user.email.value, name |-> user.name.value,
     createdAt |-> DateToISOString(heap[user.createdAt]),
     updatedAt |-> DateToISOString(heap[user.updatedAt])]

\* a User rebuilt from its serialized form: UserId, Email and UserName are
\* constructed from the strings, two Date objects are made from the ISO
\* strings and added to the heap, and User.reconstitute assembles them; the
\* first constructor that throws ends the rebuilding
UserFromJSON(json, heap) ==
    LET id == UserIdConstructor(json.id)
        email == EmailConstructor(json.email)
        name == UserNameConstructor(json.name)
    IN  IF id.status = "thrown" THEN id
        ELSE IF email.status = "thrown" THEN email
        ELSE IF name.status = "thrown" THEN name
        ELSE [status |-> "returned",
              heap |-> heap \o <<DateParse(json.createdAt), DateParse(json.updatedAt)>>,
              user |-> UserReconstituteResult(id.object, email.email, name.object,
                                              Len(heap) + 1, Len(heap) + 2)]

\* a.toJSON(), the rebuilding of b from it, a.equals(b) and b.toJSON()
RoundTrip(a, heap) ==
    LET json == UserToJSON(a, heap)
        rebuilt == UserFromJSON(json, heap)
    IN  IF rebuilt.status = "thrown" THEN rebuilt
        ELSE [status |-> "returned", b |-> rebuilt.user,
              equals |-> UserEquals(a, UserInstance(rebuilt.user)),
              json |-> UserToJSON(rebuilt.user, rebuilt.heap)]

\* candidates at the length limit: 254 characters, 254 characters of which
\* the local part is made of U+0130, and 255 characters
LongCandidates ==
    {Repeat("a", MaxEmailLength - 4) \o <<"@", "a", ".", "a">>,
     Repeat("U+0130", MaxEmailLength - 4) \o <<"@", "a", ".", "a">>,
     Repeat("a", MaxEmailLength - 3) \o <<"@", "a", ".", "a">>}

\* the Email objects the application has for them
LongEmails ==
    {EmailCreate(s).email : s \in {c \in LongCandidates : EmailCreate(c).status = "returned"}}

\* the Users the application serializes
SerializedUsers ==
    {UserReconstituteResult(id, email, name, createdAt, updatedAt) :
        id \in SampleIds, email \in Emails \cup LongEmails, name \in Names,
        createdAt \in DOMAIN PersistedDates, updatedAt \in DOMAIN PersistedDates}

\* the serialization round trip of a User, made by the application
CallRoundTrip ==
    /\ call.pc = "idle"
    /\ \E a \in SerializedUsers :
         call' = Applied("roundTrip", [a |-> a, json |-> UserToJSON(a, dates)],
                         RoundTrip(a, dates))
    /\ UNCHANGED <<users, hist, dates, now, calls, repo>>

\* Email.create(candidate) for a candidate at the length limit
CallCreateLong ==
    /\ call.pc = "idle"
    /\ \E candidate \in LongCandidates :
         call' = [NoCall EXCEPT !.kind = "create", !.candidate = candidate,
                                !.pc = "done", !.outcome = EmailCreate(candidate)]
    /\ UNCHANGED <<users, hist, dates, now, calls, repo>>

\* Email.isValid(candidate), called by the application
CallIsValid ==
    /\ call.pc = "idle"
    /\ \E candidate \in Candidates \cup LongCandidates :
         call' = Applied("Email.isValid", [candidate |-> candidate], isValid(candidate))
    /\ UNCHANGED <<users, hist, dates, now, calls, repo>>

\* the candidates of up to MaxLen - 1 characters that Email.create accepts
Accepted == {c : c \in {s \in Strings(MaxLen - 1) : EmailCreate(s).status = "returned"}}

\* the shorter ones among them
ShortAccepted == {c : c \in {s \in Accepted : Len(s) < MaxLen - 1}}

\* email1.equals(email2), email2.equals(email1) and email1.equals(email1) for
\* two Emails made by Email.create
CallEmailEquals ==
    /\ call.pc = "idle"
    /\ \E c1 \in Accepted : \E c2 \in ShortAccepted :
         LET email1 == EmailCreate(c1).email
             email2 == EmailCreate(c2).email
         IN  call' = Applied("Email.equals",
                 [c1 |-> c1, c2 |-> c2, email1 |-> email1, email2 |-> email2],
                 [forward |-> ValueObjectEquals(email1, email2),
                  backward |-> ValueObjectEquals(email2, email1),
                  self |-> ValueObjectEquals(email1, email1)])
    /\ UNCHANGED <<users, hist, dates, now, calls, repo>>

\* the candidates at the length limit that Email.create accepts
LongAccepted == {c : c \in {s \in LongCandidates : EmailCreate(s).status = "returned"}}

\* email.getDomain() and email.getLocalPart() of an Email made by Email.create
CallEmailParts ==
    /\ call.pc = "idle"
    /\ \E candidate \in Accepted \cup LongAccepted :
         LET email == EmailCreate(candidate).email
         IN  call' = Applied("Email.parts", [candidate |-> candidate, email |-> email],
                             [domain |-> EmailGetDomain(email),
                              localPart |-> EmailGetLocalPart(email)])
    /\ UNCHANGED <<users, hist, dates, now, calls, repo>>

\* s with the character at position p replaced by c
ReplaceAt(s, p, c) == [i \in 1..Len(s) |-> IF i = p THEN c ELSE s[i]]

\* s without the character at position p
DeleteAt(s, p) == SubSeq(s, 1, p - 1) \o SubSeq(s, p + 1, Len(s))

\* the strings handed to UserId: UUIDs in lowercase, in uppercase and of
\* digits, every string one replacement, one deletion or one added character
\* away from a UUID, the empty string and a short string
UuidCandidates ==
    LET uuid == Uuid("B")
    IN  {uuid, Uuid("b"), Uuid("0"), <<>>, <<"1", "2", "3">>}
        \cup {ReplaceAt(uuid, p, c) : p \in 1..Len(uuid), c \in {"g", "-", "0", "f", " "}}
        \cup {DeleteAt(uuid, p) : p \in 1..Len(uuid)}
        \cup {uuid \o <<c>> : c \in {"0", "-"}}
        \cup {<<c>> \o uuid : c \in {"0", "{"}}

\* new UserId(candidate) / UserId.create(candidate), and UserId.isValid(candidate)
CallUserIdCreate ==
    /\ call.pc = "idle"
    /\ \E candidate \in UuidCandidates :
         call' = Applied("UserId.create", [candidate |-> candidate],
                         [constructed |-> UserIdConstructor(candidate),
                          isValid |-> UserIdIsValid(candidate)])
    /\ UNCHANGED <<users, hist, dates, now, calls, repo>>

\* UserId.generate() / UserId.create() without argument
CallUserIdGenerate ==
    /\ call.pc = "idle"
    /\ \E id \in GeneratedIds :
         call' = Applied("UserId.generate", [candidate |-> <<>>],
                         [constructed |-> Constructed(id.value),
                          isValid |-> UserIdIsValid(id.value)])
    /\ UNCHANGED <<users, hist, dates, now, calls, repo>>

\* the characters of the short name candidates: two letters, the space, the
\* hyphen and a digit
NameChars == {"a", "B", " ", "-", "1"}

\* the strings handed to UserName: every short string over NameChars, the
\* names of the tests, and names around the length limit
NameCandidates ==
    UNION {[1..k -> NameChars] : k \in 0..MaxShortName}
    \cup {<<"J", "o", "h", "n", " ", "M", "i", "c", "h", "a", "e", "l", " ", "D", "o", "e">>,
          <<"O", "'", "C", "o", "n", "n", "o", "r">>,
          <<"J", "o", "h", "n", "@", "D", "o", "e">>}
    \cup {Repeat("A", MaxNameLength), Repeat("A", MaxNameLength + 1),
          <<" ">> \o Repeat("A", MaxNameLength) \o <<" ">>,
          <<" ">> \o Repeat("A", MaxNameLength + 1)}

\* new UserName(candidate) / UserName.create(candidate), and
\* UserName.isValid(candidate)
CallUserNameCreate ==
    /\ call.pc = "idle"
    /\ \E candidate \in NameCandidates :
         call' = Applied("UserName.create", [candidate |-> candidate],
                         [constructed |-> UserNameConstructor(candidate),
                          isValid |-> UserNameIsValid(candidate)])
    /\ UNCHANGED <<users, hist, dates, now, calls, repo>>

\* the UserName objects made from the candidates
ConstructedNames ==
    {UserNameConstructor(c).object :
        c \in {n \in NameCandidates : UserNameConstructor(n).status = "returned"}}

\* name.getFirstName(), name.getLastName() and name.getInitials()
CallUserNameParts ==
    /\ call.pc = "idle"
    /\ \E name \in ConstructedNames :
         call' = Applied("UserName.parts", [name |-> name],
                         [firstName |-> UserNameGetFirstName(name),
                          lastName |-> UserNameGetLastName(name),
                          initials |-> UserNameGetInitials(name)])
    /\ UNCHANGED <<users, hist, dates, now, calls, repo>>

\* capabilities that block by exact match: each blocks the addresses of its
\* list and no other string
Blocklists ==
    SUBSET {<<"a", "@", "a", ".", "a">>, <<"A", "@", "a", ".", "a">>,
            <<" ", "a", "@", "a", ".", "a">>}

\* antiSpamService.isBlocked(email) of the capability with this list
BlocklistIsBlocked(blocklist, email) == email \in blocklist

\* Email.createWithoutSpam(candidate, antiSpamService) with a capability that
\* answers at once from its list: the call up to its await, the answer and
\* the rest of the call
CallCreateWithoutSpamListed ==
    /\ call.pc = "idle"
    /\ \E blocklist \in Blocklists : \E candidate \in Accepted :
         LET settled == Resolved(BlocklistIsBlocked(blocklist, candidate))
         IN  call' = Applied("createWithoutSpam.listed",
                             [candidate |-> candidate, blocklist |-> blocklist,
                              arg |-> candidate, settled |-> settled],
                             createWithoutSpamResume(candidate, settled))
    /\ UNCHANGED <<users, hist, dates, now, calls, repo>>

\* v = Email.create(candidate).getValue(), then Email.isValid(v) and
\* Email.create(v)
CallCreateAgain ==
    /\ call.pc = "idle"
    /\ \E candidate \in Accepted \cup LongAccepted :
         LET v == EmailCreate(candidate).email.value
         IN  call' = Applied("Email.create.again", [candidate |-> candidate, v |-> v],
                             [isValid |-> isValid(v), again |-> EmailCreate(v)])
    /\ UNCHANGED <<users, hist, dates, now, calls, repo>>

\* the domains of the Emails handed to emailValidatorService.isValid: the two
\* allowed ones, and others that contain, extend or shorten them
ValidatorDomains ==
    allowedDomains \cup
    { <<"a", ".", "a">>,
      <<"c", "o", "r", "p", ".", "c", "o">>,
      <<"c", "o", "r", "p", ".", "c", "o", "m", ".", "a">>,
      <<"a", ".", "c", "o", "r", "p", ".", "c", "o", "m">>,
      <<"c", "o", "r", "p", "c", "o", "m", ".", "a">>,
      <<"u", "n", "i", "v", "e", "r", "s", "i", "t", "y", ".", "e", "d">>,
      <<"e", "d", "u", ".", "u", "n", "i", "v", "e", "r", "s", "i", "t", "y">> }

\* their local parts
ValidatorLocalParts ==
    { <<"a">>, <<"A">>, <<"a", ".", "a">>, <<"c", "o", "r", "p", ".", "c", "o", "m">> }

\* the Emails handed to emailValidatorService.isValid
ValidatorEmails ==
    {EmailCreate(local \o <<"@">> \o domain).email :
        local \in ValidatorLocalParts, domain \in ValidatorDomains}

\* validator.isValid(email), asked twice of the same validator
CallValidatorIsValid ==
    /\ call.pc = "idle"
    /\ \E email \in ValidatorEmails :
         call' = Applied("emailValidatorService.isValid", email,
                         [first |-> emailValidatorServiceIsValid(email),
                          second |-> emailValidatorServiceIsValid(email)])
    /\ UNCHANGED <<users, hist, dates, now, calls, repo>>

InitValue ==
    /\ call = NoCall
    /\ users = <<>>
    /\ hist = <<>>
    /\ dates = PersistedDates
    /\ now = 0
    /\ calls = <<>>
    /\ repo = EmptyRepository

NextValue ==
    \/ CallCreate
    \/ CallCreateLong
    \/ CallIsValid
    \/ CallUserEquals
    \/ CallRoundTrip
    \/ CallEmailEquals
    \/ CallEmailParts
    \/ CallUserIdCreate
    \/ CallUserIdGenerate
    \/ CallUserNameCreate
    \/ CallUserNameParts
    \/ CallCreateWithoutSpamListed
    \/ CallCreateAgain
    \/ CallValidatorIsValid
    \/ CallConsumed

SpecValue == InitValue /\ [][NextValue]_vars

-----------------------------------------------------------------------------
(* InMemoryBannedEmailRepository: a Set of strings behind five asynchronous *)
(* methods.  No method awaits anything, so each call runs to its end before *)
(* the next one starts, in whatever order the callers issue them.           *)

\* a JavaScript Set of strings, as the sequence of its elements in insertion
\* order
SetHas(set, x) == \E i \in DOMAIN set : set[i] = x

SetAdd(set, x) == IF SetHas(set, x) THEN set ELSE Append(set, x)

SetDelete(set, x) == SelectSeq(set, LAMBDA y : y # x)

\* the addresses the callers ask about
AskedAddresses ==
    { <<"a", "@", "a">>, <<"A", "@", "a">>, <<"A", "@", "A">>,
      <<"a", ".", "a">>, <<"a", ".", "A">> }

RepositoryIsBanned(bannedEmails, email) == SetHas(bannedEmails, ToLowerCase(email))

\* faulty variant: the address is stored as it was given
RepositoryBanKeepsCase(bannedEmails, email) == SetAdd(bannedEmails, email)

RepositoryBan(bannedEmails, email) == SetAdd(bannedEmails, ToLowerCase(email))

RepositoryUnban(bannedEmails, email) == SetDelete(bannedEmails, ToLowerCase(email))

RepositoryGetAllBanned(bannedEmails) == bannedEmails

\* one entry of the record of the calls that changed the repository
Logged(op, email) == [op |-> op, email |-> email]

CallIsBanned ==
    /\ \E email \in AskedAddresses :
         call' = Applied("isBanned", email, RepositoryIsBanned(repo.bannedEmails, email))
    /\ UNCHANGED <<users, hist, dates, now, calls, repo>>

CallBan ==
    /\ Len(repo.log) < MaxOps
    /\ \E email \in AskedAddresses :
         /\ repo' = [bannedEmails |-> RepositoryBan(repo.bannedEmails, email),
                     log |-> Append(repo.log, Logged("ban", email))]
         /\ call' = Applied("ban", email, "resolved")
    /\ UNCHANGED <<users, hist, dates, now, calls>>

CallUnban ==
    /\ Len(repo.log) < MaxOps
    /\ \E email \in AskedAddresses :
         /\ repo' = [bannedEmails |-> RepositoryUnban(repo.bannedEmails, email),
                     log |-> Append(repo.log, Logged("unban", email))]
         /\ call' = Applied("unban", email, "resolved")
    /\ UNCHANGED <<users, hist, dates, now, calls>>

CallGetAllBanned ==
    /\ call' = Applied("getAllBanned", <<>>, RepositoryGetAllBanned(repo.bannedEmails))
    /\ UNCHANGED <<users, hist, dates, now, calls, repo>>

CallClear ==
    /\ Len(repo.log) < MaxOps
    /\ repo' = [bannedEmails |-> <<>>, log |-> Append(repo.log, Logged("clear", <<>>))]
    /\ call' = Applied("clear", <<>>, "resolved")
    /\ UNCHANGED <<users, hist, dates, now, calls>>

NextRepository ==
    \/ CallIsBanned
    \/ CallBan
    \/ CallUnban
    \/ CallGetAllBanned
    \/ CallClear

SpecRepository == InitEmail /\ [][NextRepository]_vars

-----------------------------------------------------------------------------
(* Claims about the anti-spam construction path, checked under SpecEmail *)

\* the candidate passes the syntactic validation of Email construction
SyntacticallyValid(candidate) == isValid(Trim(candidate))

FinishedWithoutSpam == call.kind = "createWithoutSpam" /\ call.pc = "done"

\* C1: for a candidate that fails syntactic validation, createWithoutSpam
\* fails with the format error and isBlocked is invoked zero times.
C1_ValidationBeforeCapability ==
    (call.kind = "createWithoutSpam" /\ ~SyntacticallyValid(call.candidate)) =>
        /\ call.invoked = 0
        /\ call.pc = "done" =>
             call.outcome = Thrown("Invalid email format", Trim(call.candidate))

\* C2: for a syntactically valid candidate for which isBlocked resolves true,
\* createWithoutSpam fails with the blocked error naming the input, and no
\* Email is produced.
C2_BlockedYieldsNoEmail ==
    (FinishedWithoutSpam /\ SyntacticallyValid(call.candidate)
                         /\ call.settled = Resolved(TRUE)) =>
        /\ call.outcome.status = "thrown"
        /\ call.outcome.error =
               [kind |-> "Email is blocked or blacklisted", input |-> call.candidate]

C2_Witness ==
    /\ FinishedWithoutSpam
    /\ SyntacticallyValid(call.candidate)
    /\ call.candidate # ToLowerCase(Trim(call.candidate))
    /\ call.settled = Resolved(TRUE)
    /\ call.outcome.status = "thrown"

\* C3: when the capability rejects, createWithoutSpam rejects with that same
\* error, produces no Email, and the capability was invoked exactly once.
C3_TransportErrorPropagates ==
    FinishedWithoutSpam =>
        /\ call.invoked = 1
        /\ call.settled.state = "rejected" =>
             /\ call.outcome.status = "thrown"
             /\ call.outcome.error = call.settled.reason

C3_Witness ==
    /\ FinishedWithoutSpam
    /\ SyntacticallyValid(call.candidate)
    /\ call.settled = Rejected("ETIMEDOUT")
    /\ call.outcome = Fails([kind |-> "ETIMEDOUT"])

\* C4: for a syntactically valid candidate for which isBlocked resolves
\* false, createWithoutSpam returns the Email that Email.create returns for
\* the candidate, holding the trimmed, lowercased candidate; and Email.create
\* accepts every syntactically valid candidate without invoking isBlocked.
C4_NotBlockedSameAsCreate ==
    /\ (FinishedWithoutSpam /\ SyntacticallyValid(call.candidate)
                            /\ call.settled = Resolved(FALSE)) =>
          /\ call.outcome = EmailCreate(call.candidate)
          /\ call.outcome.status = "returned"
          /\ call.outcome.email.value = ToLowerCase(Trim(call.candidate))
    /\ (call.kind = "create" /\ SyntacticallyValid(call.candidate)) =>
          /\ call.pc = "done"
          /\ call.outcome.status = "returned"
          /\ call.invoked = 0

C4_Witness ==
    /\ FinishedWithoutSpam
    /\ SyntacticallyValid(call.candidate)
    /\ IsWhitespace(Head(call.candidate))
    /\ \E i \in 1..Len(call.candidate) : call.candidate[i] = "A"
    /\ call.settled = Resolved(FALSE)
    /\ call.outcome.status = "returned"

-----------------------------------------------------------------------------
(* Claims about the User entity, checked under SpecUser *)

\* Date.prototype.getTime of the two timestamps of users[i]
CreatedAt(i) == dates[users[i].createdAt]

UpdatedAt(i) == dates[users[i].updatedAt]

IsUpdate(i) == hist[i].op \in {"updateEmail", "updateName"}

\* users[i] was returned by User.create, or by updates starting from such a User
RECURSIVE FromCreate(_)
FromCreate(i) ==
    IF IsUpdate(i) THEN FromCreate(hist[i].receiver) ELSE hist[i].op = "create"

\* the User the chain of updates leading to users[i] started from
RECURSIVE Root(_)
Root(i) == IF IsUpdate(i) THEN Root(hist[i].receiver) ELSE i

C6_ReturnedFields ==
    \A i \in DOMAIN users : IsUpdate(i) =>
        LET this == users[hist[i].receiver]
            returned == users[i]
        IN  /\ returned.id = this.id
            /\ returned.createdAt = this.createdAt
            /\ hist[i].op = "updateEmail" =>
                 returned.email = hist[i].given.email /\ returned.name = this.name
            /\ hist[i].op = "updateName" =>
                 returned.name = hist[i].given.name /\ returned.email = this.email
            /\ returned.id = users[Root(i)].id
            /\ CreatedAt(i) = CreatedAt(Root(i))

C6_ReceiverUntouched ==
    \A i \in DOMAIN users :
        /\ i \in DOMAIN users'
        /\ users'[i] = users[i]
        /\ dates'[users[i].createdAt] = dates[users[i].createdAt]
        /\ dates'[users[i].updatedAt] = dates[users[i].updatedAt]

\* C6: the returned User differs from the receiver in the named field and
\* updatedAt only, and no call changes a field of a User that exists.
C6_UpdateFrame == [](C6_ReturnedFields) /\ [][C6_ReceiverUntouched]_vars

C6_Witness ==
    \E i \in DOMAIN users :
        /\ hist[i].op = "updateName"
        /\ hist[hist[i].receiver].op = "updateEmail"
        /\ users[i].name # users[hist[i].receiver].name
        /\ users[hist[i].receiver].email # users[Root(i)].email
        /\ UpdatedAt(i) > UpdatedAt(Root(i))

UpdatesNameOfFresh(i) ==
    hist[i].op = "updateName" /\ hist[hist[i].receiver].op = "create"

C10_CreateResult ==
    \A i \in DOMAIN users : hist[i].op = "create" =>
        /\ hist[i].reads = 1
        /\ CreatedAt(i) = hist[i].clock
        /\ UpdatedAt(i) = CreatedAt(i)
        /\ users[i].email = hist[i].given.email
        /\ users[i].name = hist[i].given.name
        /\ hist[i].given.id # NoId => users[i].id = hist[i].given.id
        /\ hist[i].given.id = NoId =>
             /\ hist[i].generated
             /\ UserIdIsValid(users[i].id.value)

C10_Witness ==
    \E i \in DOMAIN users, j \in DOMAIN users :
        /\ hist[i].op = "create" /\ hist[i].given.id # NoId
        /\ hist[j].op = "create" /\ hist[j].given.id = NoId
        /\ users[i].email # users[j].email
        /\ CreatedAt(j) > CreatedAt(i)

-----------------------------------------------------------------------------
(* Claims about the pure operations, checked under SpecValue *)

\* C11: user.equals(other) is true exactly when other is a User whose id has
\* the same wrapped string as the receiver's id; email, name, createdAt and
\* updatedAt play no part, and an object that is not a User yields false even
\* with the same id.
C11_EqualsByIdOnly ==
    call.kind = "User.equals" =>
        (call.outcome <=> (/\ call.input.other.class = "User"
                           /\ call.input.other.id.value = call.input.this.id.value))

\* equals answered true for two Users that differ in email, name and both
\* timestamps
C11_Witness ==
    /\ call.kind = "User.equals"
    /\ call.outcome
    /\ call.input.other.class = "User"
    /\ call.input.this.email # call.input.other.fields.email
    /\ call.input.this.name # call.input.other.fields.name
    /\ call.input.this.createdAt # call.input.other.fields.createdAt
    /\ call.input.this.updatedAt # call.input.other.fields.updatedAt

\* C14: for every User a, rebuilding a User b from a.toJSON() through the
\* constructors of UserId, Email and UserName, new Date of the two ISO strings
\* and User.reconstitute succeeds, a.equals(b) is true and b.toJSON() is
\* a.toJSON().
C14_RoundTrip ==
    call.kind = "roundTrip" =>
        /\ call.outcome.status = "returned"
        /\ call.outcome.equals
        /\ call.outcome.json = call.input.json

\* C18: for every candidate Email construction accepts, the stored value is
\* the candidate without its leading and trailing whitespace, in lowercase.
C18_StoredTrimmedLowercased ==
    (call.kind = "create" /\ call.outcome.status = "returned") =>
        call.outcome.email.value = ToLowerCase(Trim(call.candidate))

\* an accepted candidate with whitespace on both sides and an uppercase letter
C18_Witness ==
    /\ call.kind = "create"
    /\ call.outcome.status = "returned"
    /\ IsWhitespace(Head(call.candidate))
    /\ IsWhitespace(call.candidate[Len(call.candidate)])
    /\ \E i \in 1..Len(call.candidate) : call.candidate[i] = "A"

\* local-part@domain: exactly one '@', no whitespace anywhere, something
\* before the '@', and in the part after it a '.' that is neither its first
\* nor its last character
LocalAtDomain(s) ==
    /\ Cardinality(AtSigns(s)) = 1
    /\ \A i \in 1..Len(s) : ~IsWhitespace(s[i])
    /\ \A at \in AtSigns(s) :
          /\ at > 1
          /\ \E dot \in (at + 2)..(Len(s) - 1) : s[dot] = "."

\* the trimmed candidate has a length in (0,254], no two consecutive dots,
\* and the shape local-part@domain
WellFormed(trimmed) ==
    /\ Len(trimmed) > 0
    /\ Len(trimmed) <= 254
    /\ \A i \in 1..(Len(trimmed) - 1) : ~(trimmed[i] = "." /\ trimmed[i + 1] = ".")
    /\ LocalAtDomain(trimmed)

\* C19: Email.isValid(candidate) is true exactly when the trimmed candidate
\* has a length in (0,254], no '..' and the shape local-part@domain; it
\* agrees with whether Email construction accepts the candidate, surrounding
\* whitespace included.
C19_IsValidAfterTrimming ==
    call.kind = "Email.isValid" =>
        /\ call.outcome <=> WellFormed(Trim(call.input.candidate))
        /\ call.outcome <=> (EmailCreate(call.input.candidate).status = "returned")

\* C20: Email construction throws 'Invalid email format' with the trimmed
\* input, and yields no Email, exactly when the trimmed candidate is empty,
\* longer than 254 characters, has two consecutive dots or has not the shape
\* local-part@domain; otherwise it returns an Email.
C20_FormatErrorExactly ==
    call.kind = "create" =>
        IF WellFormed(Trim(call.candidate))
        THEN call.outcome.status = "returned"
        ELSE /\ call.outcome.status = "thrown"
             /\ call.outcome.error.kind = "Invalid email format"
             /\ call.outcome.error.input = Trim(call.candidate)

\* a candidate of 255 characters, rejected for its length alone
C20_Witness ==
    /\ call.kind = "create"
    /\ call.outcome.status = "thrown"
    /\ Len(Trim(call.candidate)) > MaxEmailLength
    /\ LocalAtDomain(Trim(call.candidate))

\* s without its leading and trailing whitespace, letter case ignored
IgnoringCaseAndPadding(s) == ToLowerCase(Trim(s))

\* C21: two Emails are equal exactly when their stored normalized strings are
\* identical, so candidates that differ only in letter case or surrounding
\* whitespace give equal Emails; equals is reflexive and symmetric.
C21_EqualsByStoredValue ==
    call.kind = "Email.equals" =>
        /\ call.outcome.forward <=> (call.input.email1.value = call.input.email2.value)
        /\ (IgnoringCaseAndPadding(call.input.c1) = IgnoringCaseAndPadding(call.input.c2))
               => call.outcome.forward
        /\ call.outcome.backward = call.outcome.forward
        /\ call.outcome.self

\* equal Emails from candidates that differ in case and in whitespace
C21_Witness ==
    /\ call.kind = "Email.equals"
    /\ call.outcome.forward
    /\ Trim(call.input.c1) # call.input.c1
    /\ Trim(call.input.c2) = call.input.c2
    /\ Trim(call.input.c1) # call.input.c2
    /\ ToLowerCase(call.input.c2) # call.input.c2

\* the position of the first '@' of s
FirstAt(s) == CHOOSE i \in AtSigns(s) : \A k \in AtSigns(s) : i <= k

\* C22: for every constructed Email, getDomain() is what follows the first
\* '@' of the stored value and getLocalPart() is what precedes it; joined by
\* '@' they give the stored value, both are non-empty and the domain has a
\* '.'.
C22_DomainAndLocalPart ==
    call.kind = "Email.parts" =>
        LET value == call.input.email.value
            domain == call.outcome.domain
            localPart == call.outcome.localPart
        IN  /\ AtSigns(value) # {}
            /\ domain = SubSeq(value, FirstAt(value) + 1, Len(value))
            /\ localPart = SubSeq(value, 1, FirstAt(value) - 1)
            /\ localPart \o <<"@">> \o domain = value
            /\ domain # <<>>
            /\ localPart # <<>>
            /\ \E i \in 1..Len(domain) : domain[i] = "."

\* the parts of an Email whose candidate had an uppercase letter and padding
C22_Witness ==
    /\ call.kind = "Email.parts"
    /\ call.input.candidate # call.input.email.value
    /\ Len(call.outcome.localPart) > 1
    /\ Len(call.outcome.domain) > 2

\* 36 characters: hyphens at positions 9, 14, 19 and 24, and hexadecimal
\* digits of either case everywhere else
IsCanonicalUuid(s) ==
    /\ Len(s) = 36
    /\ \A i \in 1..Len(s) :
          IF i \in {9, 14, 19, 24} THEN s[i] = "-"
          ELSE s[i] \in {"0", "1", "2", "3", "4", "5", "6", "7", "8", "9",
                         "a", "b", "c", "d", "e", "f", "A", "B", "C", "D", "E", "F"}

\* C24: UserId construction succeeds exactly when UserId.isValid holds, that
\* is for 32 hex digits grouped 8-4-4-4-12 with hyphens, in either case; the
\* value is then stored unchanged, otherwise 'Invalid UserId format' is
\* thrown; a generated UserId is valid as well.
C24_UserIdConstruction ==
    /\ call.kind = "UserId.create" =>
          /\ call.outcome.isValid <=> IsCanonicalUuid(call.input.candidate)
          /\ IF call.outcome.isValid
             THEN /\ call.outcome.constructed.status = "returned"
                  /\ call.outcome.constructed.object.value = call.input.candidate
             ELSE /\ call.outcome.constructed.status = "thrown"
                  /\ call.outcome.constructed.error.kind = "Invalid UserId format"
    /\ call.kind = "UserId.generate" =>
          /\ call.outcome.isValid
          /\ IsCanonicalUuid(call.outcome.constructed.object.value)

\* a UUID in uppercase, accepted and stored as given
C24_Witness ==
    /\ call.kind = "UserId.create"
    /\ call.outcome.constructed.status = "returned"
    /\ \E i \in 1..Len(call.input.candidate) : call.input.candidate[i] = "B"

\* a letter, a space, a hyphen or an apostrophe
IsNameCharacter(c) ==
    \/ \E i \in 1..26 : c = LowerLetters[i] \/ c = UpperLetters[i]
    \/ c \in {" ", "-", "'"}

\* C25: UserName construction trims the candidate and succeeds exactly when
\* the trimmed string has 2 to 50 characters, all of them letters, spaces,
\* hyphens or apostrophes; the trimmed string is then stored, otherwise
\* 'Invalid user name' is thrown; UserName.isValid gives the same verdict.
C25_UserNameConstruction ==
    call.kind = "UserName.create" =>
        LET trimmed == Trim(call.input.candidate)
            valid == /\ Len(trimmed) >= 2
                     /\ Len(trimmed) <= 50
                     /\ \A i \in 1..Len(trimmed) : IsNameCharacter(trimmed[i])
        IN  /\ call.outcome.isValid <=> valid
            /\ IF valid
               THEN /\ call.outcome.constructed.status = "returned"
                    /\ call.outcome.constructed.object.value = trimmed
               ELSE /\ call.outcome.constructed.status = "thrown"
                    /\ call.outcome.constructed.error.kind = "Invalid user name"

\* a padded name of 50 characters, accepted and stored trimmed
C25_Witness ==
    /\ call.kind = "UserName.create"
    /\ call.outcome.constructed.status = "returned"
    /\ Len(call.input.candidate) > 50
    /\ Len(call.outcome.constructed.object.value) = 50

\* the positions of s where a token starts: a character that is no
\* whitespace, at the start of s or after a whitespace character
TokenStarts(s) ==
    {i \in 1..Len(s) : ~IsWhitespace(s[i]) /\ (i = 1 \/ IsWhitespace(s[i - 1]))}

\* the token of s that starts at position i
TokenAt(s, i) ==
    LET after == {k \in i..Len(s) : IsWhitespace(s[k])}
    IN  SubSeq(s, i, IF after = {} THEN Len(s)
                     ELSE (CHOOSE k \in after : \A m \in after : k <= m) - 1)

\* C26: getFirstName() is the first whitespace-delimited token of the stored
\* value, getLastName() is the last token when there are several and the
\* empty string otherwise, and getInitials() is the uppercase first character
\* of every token, in order.
C26_NameParts ==
    call.kind = "UserName.parts" =>
        LET value == call.input.name.value
            starts == TokenStarts(value)
            first == CHOOSE i \in starts : \A k \in starts : i <= k
            last == CHOOSE i \in starts : \A k \in starts : i >= k
        IN  /\ starts # {}
            /\ call.outcome.firstName = TokenAt(value, first)
            /\ call.outcome.lastName =
                  IF Cardinality(starts) > 1 THEN TokenAt(value, last) ELSE <<>>
            /\ Len(call.outcome.initials) = Cardinality(starts)
            /\ \A n \in 1..Len(call.outcome.initials) :
                  \E i \in starts :
                      /\ Cardinality({k \in starts : k <= i}) = n
                      /\ call.outcome.initials[n] = UpperChar(value[i])

\* a name of three tokens
C26_Witness ==
    /\ call.kind = "UserName.parts"
    /\ Len(call.outcome.initials) = 3
    /\ call.outcome.firstName # call.outcome.lastName

\* C27: no Email returned by the anti-spam construction path holds an address
\* the capability blocks: when the call returns an Email e, the capability's
\* answer for e.getValue() is false, also when the candidate differs from
\* e.getValue() in letter case or surrounding whitespace.
C27_ReturnedEmailNotBlocked ==
    (call.kind = "createWithoutSpam.listed" /\ call.outcome.status = "returned") =>
        ~BlocklistIsBlocked(call.input.blocklist, call.outcome.email.value)

\* C28: for every candidate Email.create accepts, the stored value v
\* satisfies Email.isValid(v), and Email.create(v) succeeds with stored
\* value v.
C28_CreateIdempotent ==
    call.kind = "Email.create.again" =>
        /\ call.outcome.isValid
        /\ call.outcome.again.status = "returned"
        /\ call.outcome.again.email.value = call.input.v

\* the part of the stored value after its '@'
C30_AfterAt(v) == SubSeq(v, FirstAt(v) + 1, Len(v))

\* s spells corp.com
C30_IsCorpCom(s) ==
    /\ Len(s) = 8
    /\ s[1] = "c" /\ s[2] = "o" /\ s[3] = "r" /\ s[4] = "p" /\ s[5] = "."
    /\ s[6] = "c" /\ s[7] = "o" /\ s[8] = "m"

\* s spells university.edu
C30_IsUniversityEdu(s) ==
    /\ Len(s) = 14
    /\ SubSeq(s, 1, 10) = <<"u", "n", "i", "v", "e", "r", "s", "i", "t", "y">>
    /\ s[11] = "." /\ s[12] = "e" /\ s[13] = "d" /\ s[14] = "u"

\* C30: emailValidatorService.isValid(email) is true exactly when the part of
\* the Email's stored value after '@', which is getDomain(), is corp.com or
\* university.edu, and a second call on the same Email gives the same result.
C30_AllowedDomainsOnly ==
    call.kind = "emailValidatorService.isValid" =>
        LET domain == C30_AfterAt(call.input.value)
        IN  /\ EmailGetDomain(call.input) = domain
            /\ call.outcome.first <=> (C30_IsCorpCom(domain) \/ C30_IsUniversityEdu(domain))
            /\ call.outcome.second = call.outcome.first

\* an Email at an allowed domain was accepted, its local part lowercased
C30_Witness ==
    /\ call.kind = "emailValidatorService.isValid"
    /\ call.outcome.first
    /\ call.input.value = <<"a", "@", "u", "n", "i", "v", "e", "r", "s", "i", "t", "y", ".", "e", "d", "u">>

-----------------------------------------------------------------------------
(* Further claims about User, checked under SpecUser *)

\* users[i] came from User.create called without an id
CreatedWithoutId(i) == hist[i].op = "create" /\ hist[i].given.id = NoId

\* C12: no two Users returned by User.create without a supplied id have the
\* same identifier, whatever their email and name, and equals between them is
\* false.
C12_CreatedIdsDiffer ==
    \A i \in DOMAIN users : \A j \in DOMAIN users :
        (i # j /\ CreatedWithoutId(i) /\ CreatedWithoutId(j)) =>
            /\ users[i].id.value # users[j].id.value
            /\ ~UserEquals(users[i], UserInstance(users[j]))

\* two Users created without an id from the same email and name
C12_Witness ==
    \E i \in DOMAIN users : \E j \in DOMAIN users :
        /\ i # j
        /\ CreatedWithoutId(i)
        /\ CreatedWithoutId(j)
        /\ hist[i].given.email = hist[j].given.email
        /\ hist[i].given.name = hist[j].given.name

\* users[i] holds exactly the five values reconstitute was called with (the
\* Date objects themselves), and the call generated no identifier and took no
\* clock reading
C13_SuppliedValues ==
    \A i \in DOMAIN users :
        hist[i].op = "reconstitute" =>
            /\ users[i].id = hist[i].given.id
            /\ users[i].email = hist[i].given.email
            /\ users[i].name = hist[i].given.name
            /\ users[i].createdAt = hist[i].given.createdAt
            /\ users[i].updatedAt = hist[i].given.updatedAt
            /\ ~hist[i].generated
            /\ hist[i].reads = 0

\* a call of reconstitute leaves the clock, the identifiers generated so far,
\* and the time of the Date objects it is given as they are
C13_NoClockNoGenerate ==
    (Len(users') = Len(users) + 1 /\ hist'[Len(users')].op = "reconstitute") =>
        /\ now' = now
        /\ Generated' = Generated
        /\ dates'[users'[Len(users')].createdAt] \in PersistedTimes
        /\ dates'[users'[Len(users')].updatedAt] \in PersistedTimes

C15_CreateRejectsInvalidEmail ==
    \A i \in DOMAIN users :
        hist[i].op = "create" => emailValidatorServiceIsValid(hist[i].given.email)

\* what a call returned is a User: an object with the five fields, holding
\* an identifier, an Email, a UserName and two Date objects
IsUser(u) ==
    /\ DOMAIN u = {"id", "email", "name", "createdAt", "updatedAt"}
    /\ UserIdIsValid(u.id.value)
    /\ u.email \in Emails
    /\ u.name \in Names
    /\ {u.createdAt, u.updatedAt} \subseteq DOMAIN dates

-----------------------------------------------------------------------------
(* Claim about Date objects changed in place, checked under SpecAlias *)

\* the timestamps of all Users: one slot for each User and each of its two
\* Date fields
Timestamps == (DOMAIN users) \X {"createdAt", "updatedAt"}

\* the slots whose observed time differs between the two states of a step
ChangedTimestamps ==
    {slot \in Timestamps :
        dates'[users'[slot[1]][slot[2]]] # dates[users[slot[1]][slot[2]]]}

\* a change made in place to one Date object changes the time observed at
\* one timestamp of one User at most
C17_ChangeStaysLocal ==
    (users' = users /\ dates' # dates) => Cardinality(ChangedTimestamps) <= 1

\* C17: an in-place change to a Date reachable from one User or held by the
\* caller (setTime) changes neither createdAt nor updatedAt observed on any
\* other User, nor the other timestamp of the same User.
C17_NoSharedDates == [][C17_ChangeStaysLocal]_vars

-----------------------------------------------------------------------------
(* Claim about concurrent construction calls, checked under SpecConcurrent *)

\* the outcome of a call taken alone, from its own candidate and the answer
\* to its own invocation of the capability
OwnOutcome(c) ==
    IF c.kind = "create" THEN EmailCreate(c.candidate)
    ELSE IF c.settled.state = "rejected" THEN Fails(c.settled.reason)
    ELSE IF c.settled.value THEN Thrown("Email is blocked or blacklisted", c.candidate)
    ELSE EmailCreate(c.candidate)

\* every finished call has the outcome of the same call taken alone, two
\* finished calls with the same candidate and the same answer have the same
\* outcome, and only a createWithoutSpam call is ever suspended, with its
\* one invocation of the capability made
C23_OwnOutcomeOnly ==
    /\ \A i \in DOMAIN calls :
          calls[i].pc = "done" => calls[i].outcome = OwnOutcome(calls[i])
    /\ \A i \in DOMAIN calls : \A j \in DOMAIN calls :
          (/\ calls[i].pc = "done"
           /\ calls[j].pc = "done"
           /\ calls[i].kind = calls[j].kind
           /\ calls[i].candidate = calls[j].candidate
           /\ calls[i].settled = calls[j].settled) => calls[i].outcome = calls[j].outcome
    /\ \A i \in DOMAIN calls :
          calls[i].pc # "done" =>
              /\ calls[i].pc = "awaiting"
              /\ calls[i].kind = "createWithoutSpam"
              /\ calls[i].invoked = 1

\* a step changes one call at most, and never a call that has finished
C23_OthersUntouched ==
    /\ Cardinality({i \in DOMAIN calls : calls'[i] # calls[i]}) <= 1
    /\ \A i \in DOMAIN calls : calls[i].pc = "done" => calls'[i] = calls[i]

\* C23: concurrently issued construction calls are independent: under every
\* interleaving, the outcome of each call depends on its own candidate and
\* on the answer to its own invocation of the capability only, no call
\* changes another, and nothing but the capability invocation suspends.
C23_CallsIndependent == [](C23_OwnOutcomeOnly) /\ [][C23_OthersUntouched]_vars

\* two calls for the same candidate, answered in the reverse order of their
\* issue and differently
C23_Witness ==
    /\ Len(calls) >= 2
    /\ calls[1].kind = "createWithoutSpam"
    /\ calls[2].kind = "createWithoutSpam"
    /\ calls[1].candidate = calls[2].candidate
    /\ calls[1].pc = "awaiting"
    /\ calls[2].pc = "done"
    /\ calls[2].outcome.status = "returned"

-----------------------------------------------------------------------------
(* Claim about the banned-address repository, checked under SpecRepository *)

\* two characters that are the same letter in either case
C29_SameLetter(c, d) == c = d \/ {c, d} = {"a", "A"}

\* two addresses equal ignoring case
C29_EqualIgnoringCase(a, b) ==
    /\ Len(a) = Len(b)
    /\ \A i \in DOMAIN a : C29_SameLetter(a[i], b[i])

\* the most recent ban or unban of an address equal to e ignoring case was a
\* ban, and no clear came after it
C29_LastWasBan(log, e) ==
    \E i \in DOMAIN log :
        /\ log[i].op = "ban"
        /\ C29_EqualIgnoringCase(log[i].email, e)
        /\ \A j \in DOMAIN log :
               j > i => /\ log[j].op # "clear"
                        /\ ~C29_EqualIgnoringCase(log[j].email, e)

\* the address in lower case, letter by letter
C29_Lowered(e) == [i \in DOMAIN e |-> IF e[i] = "A" THEN "a" ELSE e[i]]

\* C29: after any sequence of ban, unban and clear calls, isBanned(e) is true
\* exactly when the most recent ban or unban of an address equal to e
\* ignoring case was a ban and no clear happened after it; banning a banned
\* address again changes nothing; getAllBanned returns exactly the lowercased
\* banned addresses, each once.
C29_TracksBans ==
    /\ \A e \in AskedAddresses :
           RepositoryIsBanned(repo.bannedEmails, e) <=> C29_LastWasBan(repo.log, e)
    /\ call.kind = "isBanned" => (call.outcome <=> C29_LastWasBan(repo.log, call.input))
    /\ \A e \in AskedAddresses :
           RepositoryBan(RepositoryBan(repo.bannedEmails, e), e)
               = RepositoryBan(repo.bannedEmails, e)
    /\ call.kind = "getAllBanned" =>
           /\ \A i, j \in DOMAIN call.outcome :
                  call.outcome[i] = call.outcome[j] => i = j
           /\ {call.outcome[i] : i \in DOMAIN call.outcome}
                  = {C29_Lowered(e) : e \in {a \in AskedAddresses : C29_LastWasBan(repo.log, a)}}

\* after a clear and a ban of a@a, isBanned of A@a answered true
C29_Witness ==
    /\ call.kind = "isBanned"
    /\ call.input = <<"A", "@", "a">>
    /\ call.outcome = TRUE
    /\ Len(repo.log) = MaxOps
    /\ repo.log[1].op = "unban"
    /\ repo.log[MaxOps - 1].op = "clear"
    /\ repo.log[MaxOps] = Logged("ban", <<"a", "@", "a">>)

====
